---- MODULE Spec2Model ----
(***************************************************************************)
(* A model of the synchronisation primitives of atomics_and_locks:         *)
(*   - locks/spin_lock.rs                 SpinLock<T> and its Guard        *)
(*   - channels/one_shot_channel.rs       OneShotChannel<T>                *)
(*   - reference_counting/arc_weak_data.rs  Arc<T> / Weak<T>               *)
(*   - channels/sender_receiver_borrow.rs Channel<T>, Sender, Receiver     *)
(* Every atomic operation of the source is one step; every non-atomic      *)
(* access to shared memory (the protected value, the channel slot, the     *)
(* payload) is a step of its own, so that two threads can be seen inside   *)
(* an access at once.  Atomics are interleaved sequentially consistently.  *)
(***************************************************************************)
EXTENDS Integers, Sequences, FiniteSets, TLC

\* ------------------------------------------------------------------ bounds
NLockThreads == 3      \* threads using the SpinLock
MaxLockCalls == 2      \* lock() calls per thread
MaxPushes == 1         \* push() calls per thread
MaxUnlocks == 1        \* calls of the public unlock(), in all

NChanThreads == 3      \* threads using the OneShotChannel
MaxSends == 3          \* send() calls, in all
MaxRecvs == 3          \* receive() calls, in all

NArcThreads == 3       \* threads using the Arc and Weak handles of one allocation
MaxHandles == 4        \* Arc and Weak handles ever created for the allocation
UsizeBits == 4         \* width of usize, scaled down

MaxRounds == 2         \* split() calls on the borrowing Channel
MaxBorrowMsg == 2      \* distinct messages a Sender can be given

LockThreads == 1..NLockThreads
\* The messages passed to Sender::send; 0 stands for bits that are no message.
BorrowMsgs == 1..MaxBorrowMsg
ArcThreads == 1..NArcThreads
Handles == 1..MaxHandles
\* usize::MAX, arc_weak_data.rs 69, 86, 96
UsizeMax == 2 ^ UsizeBits - 1
ChanThreads == 1..NChanThreads
\* The k-th send() call passes message k; 0 stands for the bits of a slot
\* that was never written.
SlotBits == 0..MaxSends

\* one_shot_channel.rs 4-7
EMPTY == 0
WRITING == 1
READY == 2
READING == 3

VARIABLES
    \* SpinLock (locks/spin_lock.rs)
    locked,       \* SpinLock.locked: AtomicBool
    value,        \* SpinLock.value: the protected Vec
    lpc,          \* per thread: "idle" | "spin" (inside lock()) | "push" (inside Vec::push)
    guards,       \* per thread: number of live Guards it owns
    ltmp,         \* per thread: the contents Vec::push read before it writes
    lcalls,       \* per thread: lock() calls made
    pushes,       \* per thread: push() calls completed
    unlocks,      \* unlock() calls made
    owner         \* the thread whose compare-and-swap false->true succeeded last (0: none)

VARIABLES
    \* OneShotChannel (channels/one_shot_channel.rs)
    state,        \* OneShotChannel.state: AtomicU8
    message,      \* OneShotChannel.message: the bits of the slot
    msgLive,      \* whether the slot holds a written, not yet moved-out value
    cpc,          \* per thread: "idle" | "send_write" | "send_store" | "recv_read"
                  \*   | "recv_store" | "send_panic" | "recv_panic" (the thread died)
    carg,         \* per thread: the message its send() was called with
    crecv,        \* per thread: the local v of receive()
    sends,        \* send() calls made
    recvs,        \* receive() calls made
    chanDropped,  \* the channel was destroyed
    sentOk,       \* messages whose send() returned
    lastSent,     \* the message of the most recent send() that returned (0: none)
    delivered,    \* per message: times receive() returned it
    destroyed,    \* per slot content: times the channel's destruction destroyed it
    sendWins,     \* send() exchanges won since the state last became EMPTY
    sendLosers,   \* threads whose send() exchange failed since then
    recvWins,     \* receive() exchanges won since the state last became READY
    recvLosers,   \* threads whose receive() exchange failed since then
    everReady,    \* the state has been READY
    readySeen     \* what the most recent is_ready() returned (FALSE: no call yet)

VARIABLES
    \* Arc / Weak (reference_counting/arc_weak_data.rs)
    data_ref_count,   \* ArcData.data_ref_count: AtomicUsize
    alloc_ref_count,  \* ArcData.alloc_ref_count: AtomicUsize
    data,             \* ArcData.data: "Some" | "None"
    freed,            \* the Box holding the ArcData was deallocated
    hk,               \* per handle: "new" (not created) | "arc" | "weak"
                      \*   | "dropping" (inside its drop) | "dead"
    apc,              \* per thread: its position inside an operation, or "idle"
    ah,               \* per thread: the handle its operation was called on (0: none)
    an,               \* per thread: the local n of upgrade()
    upDead,           \* per thread: its upgrade() started with no strong owner left
    numDrops,         \* payload destructions by Drop for Arc (line 129)
    numDropsFree,     \* payload destructions by the deallocation (line 117)
    numFrees,         \* deallocations
    uaf,              \* a counter or the payload slot was accessed after the deallocation
    aborted           \* std::process::abort() was called

VARIABLES
    \* Channel / Sender / Receiver (channels/sender_receiver_borrow.rs)
    bReady,       \* Channel.ready: AtomicBool
    bSlot,        \* Channel.message: "uninit" | "live" (written, not moved out)
                  \*   | "moved" (the value was moved out by assume_init_read)
    bMessage,     \* the bits of the slot (0: never written)
    spc,          \* the Sender: "none" (no Sender exists) | "write" | "store"
                  \*   | "unpark" | "done"
    rpc,          \* the Receiver: "none" | "swap" | "park" | "read" | "done"
    bToken,       \* the park token of the receiving thread
    bGot,         \* what receive() returned in this round (0: nothing yet)
    bEarly,       \* receive() read the slot before send() had written it
    bRounds,      \* split() calls made
    bDropped,     \* the Channel was dropped
    bTwice        \* a drop of the Channel destroyed a moved-out message

borrowVars ==
    <<bReady, bSlot, bMessage, spc, rpc, bToken, bGot, bEarly, bRounds, bDropped, bTwice>>

lockVars == <<locked, value, lpc, guards, ltmp, lcalls, pushes, unlocks, owner>>

chanSlot == <<state, message, msgLive>>
chanLog == <<sentOk, lastSent, delivered, destroyed>>
chanRace == <<sendWins, sendLosers, recvWins, recvLosers, everReady>>
chanVars ==
    <<chanSlot, cpc, carg, crecv, sends, recvs, chanDropped, chanLog, chanRace, readySeen>>

arcMem == <<data_ref_count, alloc_ref_count, data, freed>>
arcThr == <<apc, ah, an, upDead>>
arcLog == <<numDrops, numDropsFree, numFrees, uaf, aborted>>
arcVars == <<arcMem, hk, arcThr, arcLog>>

vars == <<lockVars, chanVars, arcVars, borrowVars>>

otherThanLock == <<chanVars, arcVars, borrowVars>>
otherThanChan == <<lockVars, arcVars, borrowVars>>
otherThanArc == <<lockVars, chanVars, borrowVars>>
otherThanBorrow == <<lockVars, chanVars, arcVars>>

\* ---------------------------------------------------------------- SpinLock

\* SpinLock::new(Vec::new()), spin_lock.rs 16-21 and main.rs 41
LockInit ==
    /\ locked = FALSE
    /\ value = <<>>
    /\ lpc = [t \in LockThreads |-> "idle"]
    /\ guards = [t \in LockThreads |-> 0]
    /\ ltmp = [t \in LockThreads |-> <<>>]
    /\ lcalls = [t \in LockThreads |-> 0]
    /\ pushes = [t \in LockThreads |-> 0]
    /\ unlocks = 0
    /\ owner = 0

\* A thread enters lock(): it may already hold a Guard (nothing prevents it).
LockCall(t) ==
    /\ lpc[t] = "idle"
    /\ lcalls[t] < MaxLockCalls
    /\ lpc' = [lpc EXCEPT ![t] = "spin"]
    /\ lcalls' = [lcalls EXCEPT ![t] = @ + 1]
    /\ UNCHANGED <<locked, value, guards, ltmp, pushes, unlocks, owner>>
    /\ UNCHANGED otherThanLock

\* A broken acquire: a plain store of true that never looks at the flag.
LockCasBlind(t) ==
    /\ lpc[t] = "spin"
    /\ locked' = TRUE
    /\ owner' = t
    /\ guards' = [guards EXCEPT ![t] = @ + 1]
    /\ lpc' = [lpc EXCEPT ![t] = "idle"]
    /\ UNCHANGED <<value, ltmp, lcalls, pushes, unlocks>>
    /\ UNCHANGED otherThanLock

\* A broken acquire: a reentrant lock, which lets the thread that acquired
\* the flag last and still holds a Guard acquire it again.
LockCasReentrant(t) ==
    /\ lpc[t] = "spin"
    /\ \/ /\ locked = FALSE \/ (owner = t /\ guards[t] > 0)
          /\ locked' = TRUE
          /\ owner' = t
          /\ guards' = [guards EXCEPT ![t] = @ + 1]
          /\ lpc' = [lpc EXCEPT ![t] = "idle"]
          /\ UNCHANGED <<value, ltmp, lcalls, pushes, unlocks>>
       \/ UNCHANGED lockVars
    /\ UNCHANGED otherThanLock

\* One iteration of the loop of lock(): compare_exchange_weak(false, true).
\* On success the loop ends and the Guard exists; on failure (the flag is
\* true, or the weak exchange failed spuriously) the thread spins.
LockCas(t) ==
    /\ lpc[t] = "spin"
    /\ \/ /\ locked = FALSE
          /\ locked' = TRUE
          /\ owner' = t
          /\ guards' = [guards EXCEPT ![t] = @ + 1]
          /\ lpc' = [lpc EXCEPT ![t] = "idle"]
          /\ UNCHANGED <<value, ltmp, lcalls, pushes, unlocks>>
       \/ UNCHANGED lockVars
    /\ UNCHANGED otherThanLock

\* Guard::deref_mut then Vec::push, first half: the list is read.
PushRead(t) ==
    /\ lpc[t] = "idle"
    /\ guards[t] > 0
    /\ pushes[t] < MaxPushes
    /\ ltmp' = [ltmp EXCEPT ![t] = value]
    /\ lpc' = [lpc EXCEPT ![t] = "push"]
    /\ UNCHANGED <<locked, value, guards, lcalls, pushes, unlocks, owner>>
    /\ UNCHANGED otherThanLock

\* Vec::push, second half: the list read, with the item appended, is written back.
PushWrite(t) ==
    /\ lpc[t] = "push"
    /\ value' = Append(ltmp[t], t)
    /\ pushes' = [pushes EXCEPT ![t] = @ + 1]
    /\ lpc' = [lpc EXCEPT ![t] = "idle"]
    /\ UNCHANGED <<locked, guards, ltmp, lcalls, unlocks, owner>>
    /\ UNCHANGED otherThanLock

\* A broken Guard drop: the Guard goes away and the flag stays set.
GuardDropKeepsFlag(t) ==
    /\ lpc[t] = "idle"
    /\ guards[t] > 0
    /\ guards' = [guards EXCEPT ![t] = @ - 1]
    /\ UNCHANGED <<locked, value, lpc, ltmp, lcalls, pushes, unlocks, owner>>
    /\ UNCHANGED otherThanLock

\* Drop for Guard: store(false, Release).
GuardDrop(t) ==
    /\ lpc[t] = "idle"
    /\ guards[t] > 0
    /\ locked' = FALSE
    /\ guards' = [guards EXCEPT ![t] = @ - 1]
    /\ UNCHANGED <<value, lpc, ltmp, lcalls, pushes, unlocks, owner>>
    /\ UNCHANGED otherThanLock

\* The public SpinLock::unlock(): store(false, Release), callable by any
\* thread holding a reference to the lock, with or without a Guard.
Unlock(t) ==
    /\ lpc[t] = "idle"
    /\ unlocks < MaxUnlocks
    /\ locked' = FALSE
    /\ unlocks' = unlocks + 1
    /\ UNCHANGED <<value, lpc, guards, ltmp, lcalls, pushes, owner>>
    /\ UNCHANGED otherThanLock

LockNext ==
    \E t \in LockThreads :
        \/ LockCall(t)
        \/ LockCas(t)
        \/ PushRead(t)
        \/ PushWrite(t)
        \/ GuardDrop(t)
        \/ Unlock(t)

\* ---------------------------------------------------------- OneShotChannel

\* OneShotChannel::new(), one_shot_channel.rs 21-26
ChanInit ==
    /\ state = EMPTY
    /\ message = 0
    /\ msgLive = FALSE
    /\ cpc = [t \in ChanThreads |-> "idle"]
    /\ carg = [t \in ChanThreads |-> 0]
    /\ crecv = [t \in ChanThreads |-> 0]
    /\ sends = 0
    /\ recvs = 0
    /\ chanDropped = FALSE
    /\ sentOk = {}
    /\ lastSent = 0
    /\ delivered = [v \in SlotBits |-> 0]
    /\ destroyed = [v \in SlotBits |-> 0]
    /\ sendWins = 0
    /\ sendLosers = {}
    /\ recvWins = 0
    /\ recvLosers = {}
    /\ everReady = FALSE
    /\ readySeen = FALSE

\* A broken send(): swap(WRITING) in place of the compare-and-swap; the
\* caller still panics when the old state was not EMPTY.
SendCasSwap(t) ==
    /\ cpc[t] = "idle"
    /\ ~chanDropped
    /\ sends < MaxSends
    /\ sends' = sends + 1
    /\ carg' = [carg EXCEPT ![t] = sends + 1]
    /\ state' = WRITING
    /\ IF state = EMPTY
       THEN /\ cpc' = [cpc EXCEPT ![t] = "send_write"]
            /\ sendWins' = sendWins + 1
            /\ UNCHANGED sendLosers
       ELSE /\ cpc' = [cpc EXCEPT ![t] = "send_panic"]
            /\ sendLosers' = sendLosers \cup {t}
            /\ UNCHANGED sendWins
    /\ UNCHANGED <<message, msgLive, crecv, recvs, chanDropped, chanLog>>
    /\ UNCHANGED <<recvWins, recvLosers, everReady>>
    /\ UNCHANGED <<readySeen, otherThanChan>>

\* A broken send(): the state is set to WRITING without being compared.
SendCasBlind(t) ==
    /\ cpc[t] = "idle"
    /\ ~chanDropped
    /\ sends < MaxSends
    /\ sends' = sends + 1
    /\ carg' = [carg EXCEPT ![t] = sends + 1]
    /\ state' = WRITING
    /\ cpc' = [cpc EXCEPT ![t] = "send_write"]
    /\ sendWins' = sendWins + 1
    /\ UNCHANGED <<message, msgLive, crecv, recvs, chanDropped, chanLog>>
    /\ UNCHANGED <<sendLosers, recvWins, recvLosers, everReady>>
    /\ UNCHANGED <<readySeen, otherThanChan>>

\* send(), lines 30-36: compare_exchange(EMPTY, WRITING); on failure the
\* thread panics (the message passed in is dropped by the unwinding).
SendCas(t) ==
    /\ cpc[t] = "idle"
    /\ ~chanDropped
    /\ sends < MaxSends
    /\ sends' = sends + 1
    /\ carg' = [carg EXCEPT ![t] = sends + 1]
    /\ IF state = EMPTY
       THEN /\ state' = WRITING
            /\ cpc' = [cpc EXCEPT ![t] = "send_write"]
            /\ sendWins' = sendWins + 1
            /\ UNCHANGED sendLosers
       ELSE /\ cpc' = [cpc EXCEPT ![t] = "send_panic"]
            /\ sendLosers' = sendLosers \cup {t}
            /\ UNCHANGED <<state, sendWins>>
    /\ UNCHANGED <<message, msgLive, crecv, recvs, chanDropped, chanLog>>
    /\ UNCHANGED <<recvWins, recvLosers, everReady>>
    /\ UNCHANGED <<readySeen, otherThanChan>>

\* send(), line 37: (*self.message.get()).write(message)
SendWrite(t) ==
    /\ cpc[t] = "send_write"
    /\ message' = carg[t]
    /\ msgLive' = TRUE
    /\ cpc' = [cpc EXCEPT ![t] = "send_store"]
    /\ UNCHANGED <<state, carg, crecv, sends, recvs, chanDropped, chanLog, chanRace>>
    /\ UNCHANGED <<readySeen, otherThanChan>>

\* send(), line 38: state.store(READY, Release); send() returns.
SendStore(t) ==
    /\ cpc[t] = "send_store"
    /\ state' = READY
    /\ cpc' = [cpc EXCEPT ![t] = "idle"]
    /\ sentOk' = sentOk \cup {carg[t]}
    /\ lastSent' = carg[t]
    /\ recvWins' = 0
    /\ recvLosers' = {}
    /\ everReady' = TRUE
    /\ UNCHANGED <<message, msgLive, carg, crecv, sends, recvs, chanDropped>>
    /\ UNCHANGED <<delivered, destroyed, sendWins, sendLosers>>
    /\ UNCHANGED <<readySeen, otherThanChan>>

\* A broken receive(): the state is only looked at and stays READY.
RecvCasPeek(t) ==
    /\ cpc[t] = "idle"
    /\ ~chanDropped
    /\ recvs < MaxRecvs
    /\ recvs' = recvs + 1
    /\ IF state = READY
       THEN /\ cpc' = [cpc EXCEPT ![t] = "recv_read"]
            /\ recvWins' = recvWins + 1
            /\ UNCHANGED recvLosers
       ELSE /\ cpc' = [cpc EXCEPT ![t] = "recv_panic"]
            /\ recvLosers' = IF everReady THEN recvLosers \cup {t} ELSE recvLosers
            /\ UNCHANGED recvWins
    /\ UNCHANGED <<state, message, msgLive, carg, crecv, sends, chanDropped, chanLog>>
    /\ UNCHANGED <<sendWins, sendLosers, everReady>>
    /\ UNCHANGED <<readySeen, otherThanChan>>

\* receive(), lines 49-55: compare_exchange(READY, READING); on failure the
\* thread panics.
RecvCas(t) ==
    /\ cpc[t] = "idle"
    /\ ~chanDropped
    /\ recvs < MaxRecvs
    /\ recvs' = recvs + 1
    /\ IF state = READY
       THEN /\ state' = READING
            /\ cpc' = [cpc EXCEPT ![t] = "recv_read"]
            /\ recvWins' = recvWins + 1
            /\ UNCHANGED recvLosers
       ELSE /\ cpc' = [cpc EXCEPT ![t] = "recv_panic"]
            /\ recvLosers' = IF everReady THEN recvLosers \cup {t} ELSE recvLosers
            /\ UNCHANGED <<state, recvWins>>
    /\ UNCHANGED <<message, msgLive, carg, crecv, sends, chanDropped, chanLog>>
    /\ UNCHANGED <<sendWins, sendLosers, everReady>>
    /\ UNCHANGED <<readySeen, otherThanChan>>

\* What assume_init_read() can yield: the value of a live slot; any bits at
\* all of a slot that holds no live value.
SlotRead == IF msgLive THEN {message} ELSE SlotBits

\* receive(), line 60: let v = (*self.message.get()).assume_init_read()
RecvRead(t) ==
    /\ cpc[t] = "recv_read"
    /\ \E v \in SlotRead : crecv' = [crecv EXCEPT ![t] = v]
    /\ msgLive' = FALSE
    /\ cpc' = [cpc EXCEPT ![t] = "recv_store"]
    /\ UNCHANGED <<state, message, carg, sends, recvs, chanDropped, chanLog, chanRace>>
    /\ UNCHANGED <<readySeen, otherThanChan>>

\* A broken receive(): it returns without storing EMPTY.
RecvStoreStays(t) ==
    /\ cpc[t] = "recv_store"
    /\ cpc' = [cpc EXCEPT ![t] = "idle"]
    /\ delivered' = [delivered EXCEPT ![crecv[t]] = @ + 1]
    /\ UNCHANGED <<chanSlot, carg, crecv, sends, recvs, chanDropped>>
    /\ UNCHANGED <<sentOk, lastSent, destroyed, chanRace>>
    /\ UNCHANGED <<readySeen, otherThanChan>>

\* receive(), lines 61-62: state.store(EMPTY, Release); v is returned.
RecvStore(t) ==
    /\ cpc[t] = "recv_store"
    /\ state' = EMPTY
    /\ cpc' = [cpc EXCEPT ![t] = "idle"]
    /\ delivered' = [delivered EXCEPT ![crecv[t]] = @ + 1]
    /\ sendWins' = 0
    /\ sendLosers' = {}
    /\ UNCHANGED <<message, msgLive, carg, crecv, sends, recvs, chanDropped>>
    /\ UNCHANGED <<sentOk, lastSent, destroyed, recvWins, recvLosers, everReady>>
    /\ UNCHANGED <<readySeen, otherThanChan>>

\* A broken is_ready(): true for every state but EMPTY.
IsReadyNotEmpty(t) ==
    /\ cpc[t] = "idle"
    /\ ~chanDropped
    /\ readySeen' = (state # EMPTY)
    /\ UNCHANGED <<chanSlot, cpc, carg, crecv, sends, recvs, chanDropped, chanLog, chanRace>>
    /\ UNCHANGED otherThanChan

\* is_ready(), lines 41-43: self.state.load(Relaxed) == READY
IsReady(t) ==
    /\ cpc[t] = "idle"
    /\ ~chanDropped
    /\ readySeen' = (state = READY)
    /\ UNCHANGED <<chanSlot, cpc, carg, crecv, sends, recvs, chanDropped, chanLog, chanRace>>
    /\ UNCHANGED otherThanChan

\* No thread is inside send() or receive(): the channel is borrowed by none.
ChanQuiet == \A t \in ChanThreads : cpc[t] \in {"idle", "send_panic", "recv_panic"}

\* A broken destructor: it never looks at the slot.
ChanDropLeaky ==
    /\ ~chanDropped
    /\ ChanQuiet
    /\ chanDropped' = TRUE
    /\ UNCHANGED <<chanSlot, cpc, carg, crecv, sends, recvs, chanLog, chanRace>>
    /\ UNCHANGED <<readySeen, otherThanChan>>

\* Drop for OneShotChannel, lines 89-101: with the channel owned exclusively,
\* a READY slot is destroyed by assume_init_drop(); any other state destroys
\* nothing.
ChanDrop ==
    /\ ~chanDropped
    /\ ChanQuiet
    /\ chanDropped' = TRUE
    /\ IF state = READY
       THEN /\ destroyed' = [destroyed EXCEPT ![message] = @ + 1]
            /\ msgLive' = FALSE
       ELSE UNCHANGED <<destroyed, msgLive>>
    /\ UNCHANGED <<state, message, cpc, carg, crecv, sends, recvs>>
    /\ UNCHANGED <<sentOk, lastSent, delivered, chanRace>>
    /\ UNCHANGED <<readySeen, otherThanChan>>

ChanNext ==
    \/ \E t \in ChanThreads :
        \/ SendCas(t)
        \/ SendWrite(t)
        \/ SendStore(t)
        \/ RecvCas(t)
        \/ RecvRead(t)
        \/ RecvStore(t)
    \/ ChanDrop

\* ---------------------------------------------------------------- Arc / Weak

\* Arc::new(data), arc_weak_data.rs 26-36: one Arc, both counters 1, payload present.
ArcInit ==
    /\ data_ref_count = 1
    /\ alloc_ref_count = 1
    /\ data = "Some"
    /\ freed = FALSE
    /\ hk = [h \in Handles |-> IF h = 1 THEN "arc" ELSE "new"]
    /\ apc = [t \in ArcThreads |-> "idle"]
    /\ ah = [t \in ArcThreads |-> 0]
    /\ an = [t \in ArcThreads |-> 0]
    /\ upDead = [t \in ArcThreads |-> FALSE]
    /\ numDrops = 0
    /\ numDropsFree = 0
    /\ numFrees = 0
    /\ uaf = FALSE
    /\ aborted = FALSE

\* fetch_add(1) and fetch_sub(1) on an AtomicUsize wrap around.
Inc(x) == (x + 1) % (UsizeMax + 1)
Dec(x) == (x - 1) % (UsizeMax + 1)

LiveArcs == {h \in Handles : hk[h] = "arc"}
LiveWeaks == {h \in Handles : hk[h] = "weak"}

\* The strong owners: the live Arcs, and the Arcs under construction by an
\* upgrade() whose compare-and-swap has succeeded.
NoStrongOwner == LiveArcs = {} /\ \A t \in ArcThreads : apc[t] # "up_clone"

\* Handle h, of kind k, can be used through a shared reference: it is not
\* being dropped and no thread holds the &mut of get_mut() on it.
Shared(h, k) == hk[h] = k /\ \A u \in ArcThreads : ah[u] = h => apc[u] # "mut"

\* Handle h can be used through &mut or by value: no thread is using it.
Exclusive(h, k) == hk[h] = k /\ \A u \in ArcThreads : ah[u] # h

\* The model creates at most MaxHandles handles: an operation that may
\* create one starts only when a slot is left for it.
FreeSlots == {h \in Handles : hk[h] = "new"}
Creators == {t \in ArcThreads : apc[t] \in {"clone_data", "up_loop", "up_clone"}}
CanCreate == Cardinality(FreeSlots) > Cardinality(Creators)
NewHandle == CHOOSE h \in FreeSlots : \A g \in FreeSlots : h <= g

\* Thread t is at position p, in a process that has not aborted.
At(t, p) == ~aborted /\ apc[t] = p

\* Every access to the ArcData is an access to freed memory once it is freed.
Touch == uaf' = (uaf \/ freed)

\* A broken Clone for Arc: the Weak inside the Arc is copied, not cloned, so
\* that the new Arc is not counted as an owner of the allocation.
ArcCloneAllocSkipped(t, h) ==
    /\ At(t, "idle")
    /\ Shared(h, "arc")
    /\ CanCreate
    /\ Touch
    /\ apc' = [apc EXCEPT ![t] = "clone_data"]
    /\ ah' = [ah EXCEPT ![t] = h]
    /\ UNCHANGED <<arcMem, hk, an, upDead>>
    /\ UNCHANGED <<numDrops, numDropsFree, numFrees, aborted>>
    /\ UNCHANGED otherThanArc

\* Clone for Arc, line 95: self.weak.clone(), which is Clone for Weak, 85-90:
\* alloc_ref_count.fetch_add(1), abort above usize::MAX / 2.
ArcCloneAlloc(t, h) ==
    /\ At(t, "idle")
    /\ Shared(h, "arc")
    /\ CanCreate
    /\ alloc_ref_count' = Inc(alloc_ref_count)
    /\ Touch
    /\ IF alloc_ref_count > UsizeMax \div 2
       THEN aborted' = TRUE /\ UNCHANGED <<apc, ah>>
       ELSE /\ apc' = [apc EXCEPT ![t] = "clone_data"]
            /\ ah' = [ah EXCEPT ![t] = h]
            /\ UNCHANGED aborted
    /\ UNCHANGED <<data_ref_count, data, freed, hk, an, upDead>>
    /\ UNCHANGED <<numDrops, numDropsFree, numFrees>>
    /\ UNCHANGED otherThanArc

\* Clone for Arc, lines 96-99: data_ref_count.fetch_add(1), abort above
\* usize::MAX / 2; the new Arc exists.
ArcCloneData(t) ==
    /\ At(t, "clone_data")
    /\ data_ref_count' = Inc(data_ref_count)
    /\ Touch
    /\ IF data_ref_count > UsizeMax \div 2
       THEN aborted' = TRUE /\ UNCHANGED <<apc, ah, hk>>
       ELSE /\ hk' = [hk EXCEPT ![NewHandle] = "arc"]
            /\ apc' = [apc EXCEPT ![t] = "idle"]
            /\ ah' = [ah EXCEPT ![t] = 0]
            /\ UNCHANGED aborted
    /\ UNCHANGED <<alloc_ref_count, data, freed, an, upDead>>
    /\ UNCHANGED <<numDrops, numDropsFree, numFrees>>
    /\ UNCHANGED otherThanArc

\* A broken Clone for Weak: no overflow guard.
WeakCloneOfNoAbort(t, h, k) ==
    /\ At(t, "idle")
    /\ Shared(h, k)
    /\ CanCreate
    /\ alloc_ref_count' = Inc(alloc_ref_count)
    /\ Touch
    /\ hk' = [hk EXCEPT ![NewHandle] = "weak"]
    /\ UNCHANGED <<data_ref_count, data, freed, arcThr>>
    /\ UNCHANGED <<numDrops, numDropsFree, numFrees, aborted>>
    /\ UNCHANGED otherThanArc

\* Clone for Weak, lines 85-90, called on a handle of kind k; the new Weak exists.
WeakCloneOf(t, h, k) ==
    /\ At(t, "idle")
    /\ Shared(h, k)
    /\ CanCreate
    /\ alloc_ref_count' = Inc(alloc_ref_count)
    /\ Touch
    /\ IF alloc_ref_count > UsizeMax \div 2
       THEN aborted' = TRUE /\ UNCHANGED hk
       ELSE hk' = [hk EXCEPT ![NewHandle] = "weak"] /\ UNCHANGED aborted
    /\ UNCHANGED <<data_ref_count, data, freed, arcThr>>
    /\ UNCHANGED <<numDrops, numDropsFree, numFrees>>
    /\ UNCHANGED otherThanArc

\* A broken downgrade(): Arc::clone's increments, a Weak handed out.
DowngradeCountsStrong(t, h) ==
    /\ At(t, "idle")
    /\ Shared(h, "arc")
    /\ CanCreate
    /\ alloc_ref_count' = Inc(alloc_ref_count)
    /\ data_ref_count' = Inc(data_ref_count)
    /\ Touch
    /\ hk' = [hk EXCEPT ![NewHandle] = "weak"]
    /\ UNCHANGED <<data, freed, arcThr>>
    /\ UNCHANGED <<numDrops, numDropsFree, numFrees, aborted>>
    /\ UNCHANGED otherThanArc

\* Arc::downgrade, lines 52-54: arc.weak.clone()
Downgrade(t, h) == WeakCloneOf(t, h, "arc")

\* Weak::clone called on a Weak
WeakClone(t, h) == WeakCloneOf(t, h, "weak")

\* Weak::upgrade, line 63: let mut n = data_ref_count.load(Relaxed)
UpLoad(t, h) ==
    /\ At(t, "idle")
    /\ Shared(h, "weak")
    /\ CanCreate
    /\ an' = [an EXCEPT ![t] = data_ref_count]
    /\ upDead' = [upDead EXCEPT ![t] = NoStrongOwner]
    /\ apc' = [apc EXCEPT ![t] = "up_loop"]
    /\ ah' = [ah EXCEPT ![t] = h]
    /\ Touch
    /\ UNCHANGED <<arcMem, hk>>
    /\ UNCHANGED <<numDrops, numDropsFree, numFrees, aborted>>
    /\ UNCHANGED otherThanArc

\* A broken upgrade(): fetch_add(1) with no test for zero.
UpLoopNoZeroTest(t) ==
    /\ At(t, "up_loop")
    /\ data_ref_count' = Inc(data_ref_count)
    /\ apc' = [apc EXCEPT ![t] = "up_clone"]
    /\ Touch
    /\ UNCHANGED <<alloc_ref_count, data, freed, hk, ah, an, upDead>>
    /\ UNCHANGED <<numDrops, numDropsFree, numFrees, aborted>>
    /\ UNCHANGED otherThanArc

\* Weak::upgrade, one turn of the loop, lines 65-78: None when n is 0; the
\* assert; compare_exchange_weak(n, n + 1), which on failure (the counter
\* differs, or spuriously) reloads n and goes round again.
UpLoop(t) ==
    /\ At(t, "up_loop")
    /\ IF an[t] = 0
       THEN /\ apc' = [apc EXCEPT ![t] = "idle"]
            /\ ah' = [ah EXCEPT ![t] = 0]
            /\ upDead' = [upDead EXCEPT ![t] = FALSE]
            /\ UNCHANGED <<data_ref_count, an, uaf>>
       ELSE IF an[t] > UsizeMax \div 2
       THEN /\ apc' = [apc EXCEPT ![t] = "panicked"]
            /\ ah' = [ah EXCEPT ![t] = 0]
            /\ UNCHANGED <<data_ref_count, an, upDead, uaf>>
       ELSE /\ Touch
            /\ \/ /\ data_ref_count = an[t]
                  /\ data_ref_count' = an[t] + 1
                  /\ apc' = [apc EXCEPT ![t] = "up_clone"]
                  /\ UNCHANGED <<ah, an, upDead>>
               \/ /\ an' = [an EXCEPT ![t] = data_ref_count]
                  /\ UNCHANGED <<data_ref_count, apc, ah, upDead>>
    /\ UNCHANGED <<alloc_ref_count, data, freed, hk>>
    /\ UNCHANGED <<numDrops, numDropsFree, numFrees, aborted>>
    /\ UNCHANGED otherThanArc

\* A broken upgrade(): the new Arc takes a copy of the Weak, not a clone.
UpCloneCopies(t) ==
    /\ At(t, "up_clone")
    /\ Touch
    /\ hk' = [hk EXCEPT ![NewHandle] = "arc"]
    /\ apc' = [apc EXCEPT ![t] = "idle"]
    /\ ah' = [ah EXCEPT ![t] = 0]
    /\ upDead' = [upDead EXCEPT ![t] = FALSE]
    /\ an' = [an EXCEPT ![t] = 0]
    /\ UNCHANGED <<arcMem, numDrops, numDropsFree, numFrees, aborted>>
    /\ UNCHANGED otherThanArc

\* Weak::upgrade, line 79: Some(Arc { weak: self.clone() }), Clone for Weak.
UpClone(t) ==
    /\ At(t, "up_clone")
    /\ alloc_ref_count' = Inc(alloc_ref_count)
    /\ Touch
    /\ IF alloc_ref_count > UsizeMax \div 2
       THEN aborted' = TRUE /\ UNCHANGED <<hk, apc, ah, an, upDead>>
       ELSE /\ hk' = [hk EXCEPT ![NewHandle] = "arc"]
            /\ apc' = [apc EXCEPT ![t] = "idle"]
            /\ ah' = [ah EXCEPT ![t] = 0]
            /\ upDead' = [upDead EXCEPT ![t] = FALSE]
            /\ an' = [an EXCEPT ![t] = 0]
            /\ UNCHANGED aborted
    /\ UNCHANGED <<data_ref_count, data, freed>>
    /\ UNCHANGED <<numDrops, numDropsFree, numFrees>>
    /\ UNCHANGED otherThanArc

\* Deref for Arc, lines 106-111: the payload slot is read and unwrapped (a
\* panic when it is None); the caller then holds a &T into the payload.
DerefBegin(t, h) ==
    /\ At(t, "idle")
    /\ Shared(h, "arc")
    /\ Touch
    /\ IF data = "Some"
       THEN /\ apc' = [apc EXCEPT ![t] = "deref"]
            /\ ah' = [ah EXCEPT ![t] = h]
       ELSE /\ apc' = [apc EXCEPT ![t] = "panicked"]
            /\ UNCHANGED ah
    /\ UNCHANGED <<arcMem, hk, an, upDead>>
    /\ UNCHANGED <<numDrops, numDropsFree, numFrees, aborted>>
    /\ UNCHANGED otherThanArc

\* The &T obtained from deref() goes out of use.
DerefEnd(t) ==
    /\ At(t, "deref")
    /\ apc' = [apc EXCEPT ![t] = "idle"]
    /\ ah' = [ah EXCEPT ![t] = 0]
    /\ UNCHANGED <<arcMem, hk, an, upDead, arcLog>>
    /\ UNCHANGED otherThanArc

\* A broken get_mut(): it tests the number of Arcs, not of Arcs and Weaks.
GetMutStrongOnly(t, h) ==
    /\ At(t, "idle")
    /\ Exclusive(h, "arc")
    /\ Touch
    /\ IF data_ref_count = 1
       THEN /\ apc' = [apc EXCEPT ![t] = IF data = "Some" THEN "mut" ELSE "panicked"]
            /\ ah' = [ah EXCEPT ![t] = IF data = "Some" THEN h ELSE 0]
       ELSE UNCHANGED <<apc, ah>>
    /\ UNCHANGED <<arcMem, hk, an, upDead>>
    /\ UNCHANGED <<numDrops, numDropsFree, numFrees, aborted>>
    /\ UNCHANGED otherThanArc

\* Arc::get_mut, lines 38-50, on an Arc borrowed mutably: Some(&mut T) when
\* alloc_ref_count.load(Relaxed) is 1 (the slot is unwrapped: a panic when it
\* is None), None otherwise.
GetMut(t, h) ==
    /\ At(t, "idle")
    /\ Exclusive(h, "arc")
    /\ Touch
    /\ IF alloc_ref_count = 1
       THEN /\ apc' = [apc EXCEPT ![t] = IF data = "Some" THEN "mut" ELSE "panicked"]
            /\ ah' = [ah EXCEPT ![t] = IF data = "Some" THEN h ELSE 0]
       ELSE UNCHANGED <<apc, ah>>
    /\ UNCHANGED <<arcMem, hk, an, upDead>>
    /\ UNCHANGED <<numDrops, numDropsFree, numFrees, aborted>>
    /\ UNCHANGED otherThanArc

\* The &mut T obtained from get_mut() goes out of use.
MutEnd(t) ==
    /\ At(t, "mut")
    /\ apc' = [apc EXCEPT ![t] = "idle"]
    /\ ah' = [ah EXCEPT ![t] = 0]
    /\ UNCHANGED <<arcMem, hk, an, upDead, arcLog>>
    /\ UNCHANGED otherThanArc

\* A broken Drop for Arc: it destroys the payload whatever the counter was.
ArcDropDecAlways(t, h) ==
    /\ At(t, "idle")
    /\ Exclusive(h, "arc")
    /\ data_ref_count' = Dec(data_ref_count)
    /\ Touch
    /\ hk' = [hk EXCEPT ![h] = "dropping"]
    /\ ah' = [ah EXCEPT ![t] = h]
    /\ apc' = [apc EXCEPT ![t] = "drop_data"]
    /\ UNCHANGED <<alloc_ref_count, data, freed, an, upDead>>
    /\ UNCHANGED <<numDrops, numDropsFree, numFrees, aborted>>
    /\ UNCHANGED otherThanArc

\* Drop for Arc, line 124: data_ref_count.fetch_sub(1, Release) == 1
ArcDropDec(t, h) ==
    /\ At(t, "idle")
    /\ Exclusive(h, "arc")
    /\ data_ref_count' = Dec(data_ref_count)
    /\ Touch
    /\ hk' = [hk EXCEPT ![h] = "dropping"]
    /\ ah' = [ah EXCEPT ![t] = h]
    /\ apc' = [apc EXCEPT ![t] = IF data_ref_count = 1 THEN "drop_data" ELSE "drop_weak"]
    /\ UNCHANGED <<alloc_ref_count, data, freed, an, upDead>>
    /\ UNCHANGED <<numDrops, numDropsFree, numFrees, aborted>>
    /\ UNCHANGED otherThanArc

\* Drop for Arc, lines 125-129: fence(Acquire); (*ptr) = None, which destroys
\* the payload the slot held.
ArcDropData(t) ==
    /\ At(t, "drop_data")
    /\ data' = "None"
    /\ numDrops' = numDrops + (IF data = "Some" THEN 1 ELSE 0)
    /\ Touch
    /\ apc' = [apc EXCEPT ![t] = "drop_weak"]
    /\ UNCHANGED <<data_ref_count, alloc_ref_count, freed, hk, ah, an, upDead>>
    /\ UNCHANGED <<numDropsFree, numFrees, aborted>>
    /\ UNCHANGED otherThanArc

\* A broken Drop for Weak: it frees the allocation whatever the counter was.
WeakDropStepAlways(t, h) ==
    /\ alloc_ref_count' = Dec(alloc_ref_count)
    /\ Touch
    /\ apc' = [apc EXCEPT ![t] = "free"]
    /\ ah' = [ah EXCEPT ![t] = h]
    /\ hk' = [hk EXCEPT ![h] = "dropping"]
    /\ UNCHANGED <<data_ref_count, data, freed, an, upDead>>
    /\ UNCHANGED <<numDrops, numDropsFree, numFrees, aborted>>
    /\ UNCHANGED otherThanArc

\* Drop for Weak, line 116, by thread t for handle h:
\* alloc_ref_count.fetch_sub(1, Release) == 1
WeakDropStep(t, h) ==
    /\ alloc_ref_count' = Dec(alloc_ref_count)
    /\ Touch
    /\ IF alloc_ref_count = 1
       THEN /\ apc' = [apc EXCEPT ![t] = "free"]
            /\ ah' = [ah EXCEPT ![t] = h]
            /\ hk' = [hk EXCEPT ![h] = "dropping"]
       ELSE /\ apc' = [apc EXCEPT ![t] = "idle"]
            /\ ah' = [ah EXCEPT ![t] = 0]
            /\ hk' = [hk EXCEPT ![h] = "dead"]
    /\ UNCHANGED <<data_ref_count, data, freed, an, upDead>>
    /\ UNCHANGED <<numDrops, numDropsFree, numFrees, aborted>>
    /\ UNCHANGED otherThanArc

\* The end of Drop for Arc: its field `weak` is dropped (Drop for Weak).
ArcDropWeak(t) ==
    /\ At(t, "drop_weak")
    /\ WeakDropStep(t, ah[t])

\* Drop for Weak, called on a Weak.
WeakDropDec(t, h) ==
    /\ At(t, "idle")
    /\ Exclusive(h, "weak")
    /\ WeakDropStep(t, h)

\* Drop for Weak, line 117: drop(Box::from_raw(ptr)): the ArcData is dropped
\* (with the payload, if its slot still holds one) and its memory freed.
Free(t) ==
    /\ At(t, "free")
    /\ freed' = TRUE
    /\ Touch
    /\ numFrees' = numFrees + 1
    /\ numDropsFree' = numDropsFree + (IF data = "Some" THEN 1 ELSE 0)
    /\ data' = "None"
    /\ hk' = [hk EXCEPT ![ah[t]] = "dead"]
    /\ apc' = [apc EXCEPT ![t] = "idle"]
    /\ ah' = [ah EXCEPT ![t] = 0]
    /\ UNCHANGED <<data_ref_count, alloc_ref_count, an, upDead>>
    /\ UNCHANGED <<numDrops, aborted>>
    /\ UNCHANGED otherThanArc

ArcNext ==
    \E t \in ArcThreads :
        \/ \E h \in Handles :
            \/ ArcCloneAlloc(t, h)
            \/ Downgrade(t, h)
            \/ WeakClone(t, h)
            \/ UpLoad(t, h)
            \/ DerefBegin(t, h)
            \/ GetMut(t, h)
            \/ ArcDropDec(t, h)
            \/ WeakDropDec(t, h)
        \/ ArcCloneData(t)
        \/ UpLoop(t)
        \/ UpClone(t)
        \/ DerefEnd(t)
        \/ MutEnd(t)
        \/ ArcDropData(t)
        \/ ArcDropWeak(t)
        \/ Free(t)

\* ------------------------------------------- borrowing Sender / Receiver

\* Channel::new(), sender_receiver_borrow.rs 60-65 and main.rs 77: the slot
\* is uninitialized and ready is false; no Sender or Receiver exists.
BorrowInit ==
    /\ bReady = FALSE
    /\ bSlot = "uninit"
    /\ bMessage = 0
    /\ spc = "none"
    /\ rpc = "none"
    /\ bToken = FALSE
    /\ bGot = 0
    /\ bEarly = FALSE
    /\ bRounds = 0
    /\ bDropped = FALSE
    /\ bTwice = FALSE

\* The Channel is borrowed by no Sender and no Receiver.
Unborrowed == spc \in {"none", "done"} /\ rpc \in {"none", "done"}

\* Drop for Channel, lines 83-87, destroys a moved-out message: ready is true
\* and the value of the slot was taken by assume_init_read().
DropsMoved == bReady /\ bSlot = "moved"

\* Channel::split, lines 67-79: *self = Self::new() drops the old Channel
\* (Drop for Channel) and puts a new one in its place; the Sender and the
\* Receiver borrow it, the Sender holding the handle of the current thread.
Split ==
    /\ ~bDropped
    /\ Unborrowed
    /\ bRounds < MaxRounds
    /\ bRounds' = bRounds + 1
    /\ bTwice' = (bTwice \/ DropsMoved)
    /\ bReady' = FALSE
    /\ bSlot' = "uninit"
    /\ spc' = "write"
    /\ rpc' = "swap"
    /\ bGot' = 0
    /\ bEarly' = FALSE
    /\ UNCHANGED <<bMessage, bToken, bDropped>>
    /\ UNCHANGED otherThanBorrow

\* Sender::send, line 23: (*self.channel.message.get()).write(message)
SenderWrite ==
    /\ spc = "write"
    /\ \E m \in BorrowMsgs : bMessage' = m
    /\ bSlot' = "live"
    /\ spc' = "store"
    /\ UNCHANGED <<bReady, rpc, bToken, bGot, bEarly, bRounds, bDropped, bTwice>>
    /\ UNCHANGED otherThanBorrow

\* Sender::send, lines 24-26: ready.store(true, Release)
SenderStore ==
    /\ spc = "store"
    /\ bReady' = TRUE
    /\ spc' = "unpark"
    /\ UNCHANGED <<bSlot, bMessage, rpc, bToken, bGot, bEarly, bRounds, bDropped, bTwice>>
    /\ UNCHANGED otherThanBorrow

\* Sender::send, line 27: self.receiving_thread.unpark()
SenderUnpark ==
    /\ spc = "unpark"
    /\ bToken' = TRUE
    /\ spc' = "done"
    /\ UNCHANGED <<bReady, bSlot, bMessage, rpc, bGot, bEarly, bRounds, bDropped, bTwice>>
    /\ UNCHANGED otherThanBorrow

\* Receiver::receive, lines 48-52: if !ready.swap(false, Acquire)
ReceiverSwap ==
    /\ rpc = "swap"
    /\ bReady' = FALSE
    /\ rpc' = IF bReady THEN "read" ELSE "park"
    /\ UNCHANGED <<bSlot, bMessage, spc, bToken, bGot, bEarly, bRounds, bDropped, bTwice>>
    /\ UNCHANGED otherThanBorrow

\* Receiver::receive, line 53: thread::park() returns, taking the token, or
\* spuriously with no token; the flag is not looked at again.
ReceiverPark ==
    /\ rpc = "park"
    /\ bToken' = FALSE
    /\ rpc' = "read"
    /\ UNCHANGED <<bReady, bSlot, bMessage, spc, bGot, bEarly, bRounds, bDropped, bTwice>>
    /\ UNCHANGED otherThanBorrow

\* What assume_init_read() yields: the message of a live slot; any bits at
\* all of an uninitialized slot.
BorrowRead == IF bSlot = "live" THEN {bMessage} ELSE {0} \cup BorrowMsgs

\* Receiver::receive, line 55: (*self.channel.message.get()).assume_init_read()
ReceiverRead ==
    /\ rpc = "read"
    /\ \E v \in BorrowRead : bGot' = v
    /\ bEarly' = (bSlot # "live")
    /\ bSlot' = IF bSlot = "live" THEN "moved" ELSE bSlot
    /\ rpc' = "done"
    /\ UNCHANGED <<bReady, bMessage, spc, bToken, bRounds, bDropped, bTwice>>
    /\ UNCHANGED otherThanBorrow

\* Drop for Channel, lines 83-87, at the end of send_receive_channel_borrow:
\* if ready, assume_init_drop().
ChannelDrop ==
    /\ ~bDropped
    /\ Unborrowed
    /\ bDropped' = TRUE
    /\ bTwice' = (bTwice \/ DropsMoved)
    /\ bSlot' = IF bReady THEN "uninit" ELSE bSlot
    /\ UNCHANGED <<bReady, bMessage, spc, rpc, bToken, bGot, bEarly, bRounds>>
    /\ UNCHANGED otherThanBorrow

BorrowNext ==
    \/ Split
    \/ SenderWrite
    \/ SenderStore
    \/ SenderUnpark
    \/ ReceiverSwap
    \/ ReceiverPark
    \/ ReceiverRead
    \/ ChannelDrop

\* ---------------------------------------------------------- specifications

Init == LockInit /\ ChanInit /\ ArcInit /\ BorrowInit

\* One borrowing Channel, split and used by one Sender and one Receiver per round.
SpecBorrow == Init /\ [][BorrowNext]_vars

\* Every public operation of the SpinLock, by any thread, in any order.
SpecLock == Init /\ [][LockNext]_vars

\* send(), receive() and the destruction of one channel, by any thread.
SpecChan == Init /\ [][ChanNext]_vars

\* send(), receive(), is_ready() and the destruction of one channel, by any thread.
ChanReadyNext ==
    \/ \E t \in ChanThreads :
        \/ SendCas(t)
        \/ SendWrite(t)
        \/ SendStore(t)
        \/ RecvCas(t)
        \/ RecvRead(t)
        \/ RecvStore(t)
        \/ IsReady(t)
    \/ ChanDrop

SpecChanReady == Init /\ [][ChanReadyNext]_vars

\* The one receiving thread: the main thread of one_shot_channel().
Receiver == 1

\* The receiver polls is_ready() until it calls receive().
PollIsReady(t) == t = Receiver /\ recvs = 0 /\ IsReady(t)

\* The receiver calls receive(), once, after is_ready() has returned true.
GuardedRecvCas(t) == t = Receiver /\ recvs = 0 /\ readySeen /\ RecvCas(t)

\* One receiver guarding its receive() with is_ready(); any thread sends, at
\* any time.
GuardedNext ==
    \/ \E t \in ChanThreads :
        \/ SendCas(t)
        \/ SendWrite(t)
        \/ SendStore(t)
        \/ PollIsReady(t)
        \/ GuardedRecvCas(t)
        \/ RecvRead(t)
        \/ RecvStore(t)
    \/ ChanDrop

SpecChanGuarded == Init /\ [][GuardedNext]_vars

\* Every operation on the Arc and Weak handles of one allocation, by any thread.
SpecArc == Init /\ [][ArcNext]_vars

\* A fair scheduler: a thread inside upgrade() eventually runs its next step.
UpgradeFairness ==
    \A t \in ArcThreads : WF_vars(UpLoop(t)) /\ WF_vars(UpClone(t))

\* The operations that read or write a counter: deref() and get_mut(), which
\* write nothing, are left out.
ArcCountNext ==
    \E t \in ArcThreads :
        \/ \E h \in Handles :
            \/ ArcCloneAlloc(t, h)
            \/ Downgrade(t, h)
            \/ WeakClone(t, h)
            \/ UpLoad(t, h)
            \/ ArcDropDec(t, h)
            \/ WeakDropDec(t, h)
        \/ ArcCloneData(t)
        \/ UpLoop(t)
        \/ UpClone(t)
        \/ ArcDropData(t)
        \/ ArcDropWeak(t)
        \/ Free(t)

SpecArcFair == Init /\ [][ArcCountNext]_vars /\ UpgradeFairness

\* The number of Arcs the program has leaked, with mem::forget(arc.clone()),
\* before the handles of the model are used: each leaked clone is counted in
\* both counters for ever.
Leaked == {UsizeMax \div 2 - 2, UsizeMax \div 2 - 1}

ArcLeakInit ==
    /\ \E k \in Leaked :
          /\ data_ref_count = 1 + k
          /\ alloc_ref_count = 1 + k
    /\ data = "Some"
    /\ freed = FALSE
    /\ hk = [h \in Handles |-> IF h = 1 THEN "arc" ELSE "new"]
    /\ apc = [t \in ArcThreads |-> "idle"]
    /\ ah = [t \in ArcThreads |-> 0]
    /\ an = [t \in ArcThreads |-> 0]
    /\ upDead = [t \in ArcThreads |-> FALSE]
    /\ numDrops = 0
    /\ numDropsFree = 0
    /\ numFrees = 0
    /\ uaf = FALSE
    /\ aborted = FALSE

\* The operations that run near the overflow guard: with that many leaked
\* Arcs no counter comes down to 1 or 0, so that get_mut() never succeeds and
\* nothing is destroyed.
ArcLeakNext ==
    \E t \in ArcThreads :
        \/ \E h \in Handles :
            \/ ArcCloneAlloc(t, h)
            \/ Downgrade(t, h)
            \/ WeakClone(t, h)
            \/ UpLoad(t, h)
            \/ DerefBegin(t, h)
            \/ ArcDropDec(t, h)
            \/ WeakDropDec(t, h)
        \/ ArcCloneData(t)
        \/ UpLoop(t)
        \/ UpClone(t)
        \/ DerefEnd(t)
        \/ ArcDropWeak(t)

LeakInit == LockInit /\ ChanInit /\ ArcLeakInit /\ BorrowInit

SpecArcLeak == LeakInit /\ [][ArcLeakNext]_vars

\* main.rs spin_lock(): each spawned thread runs `spin.lock().push(item)`:
\* one lock(), one push through the Guard, then the Guard is dropped.
ScopedLockCall(t) == lcalls[t] = 0 /\ LockCall(t)

ScopedPushRead(t) == pushes[t] = 0 /\ PushRead(t)

ScopedGuardDrop(t) == pushes[t] = 1 /\ GuardDrop(t)

ScopedNext ==
    \E t \in LockThreads :
        \/ ScopedLockCall(t)
        \/ LockCas(t)
        \/ ScopedPushRead(t)
        \/ PushWrite(t)
        \/ ScopedGuardDrop(t)

SpecLockScoped == Init /\ [][ScopedNext]_vars

\* The flag protocol alone: lock(), Guard drops and unlock() in any order,
\* re-locking while holding a Guard included; the protected value is not touched.
FlagNext ==
    \E t \in LockThreads :
        \/ LockCall(t)
        \/ LockCas(t)
        \/ GuardDrop(t)
        \/ Unlock(t)

SpecLockFlag == Init /\ [][FlagNext]_vars

\* lock() called only by a thread that holds no Guard.
FreshLockCall(t) == guards[t] = 0 /\ LockCall(t)

FreshNext ==
    \E t \in LockThreads :
        \/ FreshLockCall(t)
        \/ LockCas(t)
        \/ GuardDrop(t)

\* A fair scheduler: a spinning thread whose compare-exchange can succeed
\* eventually runs it successfully, and a holder eventually drops its Guard.
LockFairness ==
    \A t \in LockThreads : WF_vars(LockCas(t)) /\ WF_vars(GuardDrop(t))

SpecLockFair == Init /\ [][FreshNext]_vars /\ LockFairness

LiveGuards == {t \in LockThreads : guards[t] > 0}

RECURSIVE SumOver(_, _)
SumOver(f, S) ==
    IF S = {} THEN 0
    ELSE LET x == CHOOSE y \in S : TRUE IN f[x] + SumOver(f, S \ {x})

\* C1: at most one Guard is live at any time, and the protected value is
\* accessed only while the flag is true and only by the thread whose
\* compare-and-swap succeeded, over lock(), Guard access, Guard drop and the
\* public unlock().
MutualExclusion ==
    /\ SumOver(guards, LockThreads) <= 1
    /\ \A t \in LockThreads : lpc[t] = "push" => (locked /\ owner = t)

AllPushed ==
    \A t \in LockThreads : lcalls[t] = 1 /\ pushes[t] = 1 /\ guards[t] = 0 /\ lpc[t] = "idle"

\* C9: when every thread has locked once, pushed its item through the Guard
\* and dropped the Guard, the list holds exactly the N items, each once.
NoLostUpdate ==
    AllPushed =>
        /\ Len(value) = NLockThreads
        /\ {value[i] : i \in 1..Len(value)} = LockThreads

\* C9 witness: all threads have finished and the list is full, thread 1's
\* item not being the first.
NoLostUpdateWitness ==
    AllPushed /\ Len(value) = NLockThreads /\ value[1] # 1
\* ------------------------------------------------------------ channel claims

\* C6: the value a successful receive() read is the value of the most
\* recent send() that returned, read from a slot that send() wrote before it
\* published READY; no message is returned that was never sent, nor twice.
RoundTrip ==
    /\ \A t \in ChanThreads :
          cpc[t] = "recv_store" =>
              /\ crecv[t] = lastSent
              /\ crecv[t] \in sentOk
              /\ delivered[crecv[t]] = 0
    /\ \A v \in SlotBits : delivered[v] > 0 => (v \in sentOk /\ delivered[v] = 1)

\* C6 witness: the second message sent has been received after the first.
RoundTripWitness ==
    delivered[1] = 1 /\ delivered[2] = 1 /\ state = EMPTY

\* C7: a send() on a state other than EMPTY and a receive() on a state other
\* than READY panic, and a call that panics leaves the state tag, the slot
\* and the record of sent and received messages as they were.
MisuseIsSideEffectFree ==
    [][\A t \in ChanThreads :
          (cpc[t] = "idle" /\ cpc'[t] # "idle") =>
              /\ (cpc'[t] \in {"send_write", "send_panic"} /\ state # EMPTY)
                     => cpc'[t] = "send_panic"
              /\ (cpc'[t] \in {"recv_read", "recv_panic"} /\ state # READY)
                     => cpc'[t] = "recv_panic"
              /\ cpc'[t] \in {"send_panic", "recv_panic"}
                     => /\ state' = state
                        /\ message' = message
                        /\ msgLive' = msgLive
                        /\ sentOk' = sentOk
                        /\ delivered' = delivered]_vars

\* C7 witness: a second send() panicked while the first message is still
\* pending, and a receive() panicked on a channel that was not READY.
MisuseWitness ==
    /\ state = READY /\ msgLive /\ message = 1
    /\ \E t, u \in ChanThreads : cpc[t] = "send_panic" /\ cpc[u] = "recv_panic"

\* C8: a message whose send() returned is never consumed twice; once the
\* channel is destroyed it has been consumed exactly once, by one receive()
\* or by the destruction; the destruction destroys only in state READY.
LeakSafety ==
    /\ \A v \in sentOk : delivered[v] + destroyed[v] <= 1
    /\ chanDropped => \A v \in sentOk : delivered[v] + destroyed[v] = 1
    /\ \A v \in SlotBits : destroyed[v] > 0 => (chanDropped /\ state = READY /\ v \in sentOk)
    /\ (chanDropped /\ state = EMPTY) => \A v \in SlotBits : destroyed[v] = 0

\* C8 witness: the channel was destroyed holding the second message, the
\* first one having been received.
LeakSafetyWitness ==
    chanDropped /\ delivered[1] = 1 /\ destroyed[2] = 1

\* The threads between their successful compare-and-swap and their final store.
MidTransition ==
    {t \in ChanThreads : cpc[t] \in {"send_write", "send_store", "recv_read", "recv_store"}}

\* C10: of the send() calls made since the channel was last EMPTY exactly
\* one won and every other one panicked; of the receive() calls made since it
\* was last READY exactly one won and every other one panicked; at most one
\* thread is between its compare-and-swap and its final store.
RacingCallers ==
    /\ Cardinality(MidTransition) <= 1
    /\ sendWins <= 1
    /\ recvWins <= 1
    /\ sendLosers # {} => sendWins = 1
    /\ recvLosers # {} => recvWins = 1
    /\ \A t \in sendLosers : cpc[t] = "send_panic"
    /\ \A t \in recvLosers : cpc[t] = "recv_panic"

\* C10 witness: two senders lost the race for an EMPTY channel to a third.
RacingCallersWitness ==
    /\ Cardinality(sendLosers) = 2
    /\ sendWins = 1
    /\ recvs = 0
\* ---------------------------------------------------------------- Arc claims

\* No operation is in progress on the allocation.
ArcQuiet == \A t \in ArcThreads : apc[t] = "idle"

\* C2: the payload is destroyed at most once, by the Arc drop that took
\* data_ref_count from 1 to 0 and never by the deallocation; it is present
\* while any strong owner exists; once no Arc is left and no operation is in
\* progress it has been destroyed exactly once.
PayloadLifetime ==
    /\ numDrops + numDropsFree <= 1
    /\ numDropsFree = 0
    /\ ~NoStrongOwner => (data = "Some" /\ numDrops = 0)
    /\ \A t \in ArcThreads : apc[t] = "drop_data" => (data_ref_count = 0 /\ numDrops = 0)
    /\ Cardinality({t \in ArcThreads : apc[t] = "drop_data"}) <= 1
    /\ (ArcQuiet /\ LiveArcs = {}) => (numDrops = 1 /\ data = "None")

\* C2 witness: the payload was destroyed by the drop of the last of several
\* Arcs, one of them obtained by upgrade(), while a Weak is still alive.
PayloadLifetimeWitness ==
    /\ numDrops = 1
    /\ LiveArcs = {}
    /\ LiveWeaks # {}
    /\ Cardinality({h \in Handles : hk[h] = "dead"}) >= 2
    /\ ArcQuiet

\* C3: the allocation is freed at most once, after every Arc and every Weak
\* has been dropped and after the payload has been destroyed, and no
\* operation touches the counters or the payload slot of freed memory.
AllocLifetime ==
    /\ numFrees <= 1
    /\ ~uaf
    /\ freed => /\ \A h \in Handles : hk[h] \in {"new", "dead"}
                /\ ArcQuiet
                /\ numDrops = 1
                /\ numFrees = 1
    /\ \A t \in ArcThreads :
          apc[t] = "free" =>
              /\ data = "None" /\ numDrops = 1
              /\ \A h \in Handles : hk[h] \in {"new", "dead"} \/ h = ah[t]
              /\ \A u \in ArcThreads : u # t => apc[u] = "idle"
    /\ (ArcQuiet /\ LiveArcs = {} /\ LiveWeaks = {}) => freed

\* C3 witness: the allocation was freed by the drop of a Weak that outlived
\* every Arc.
AllocLifetimeWitness ==
    /\ freed
    /\ numFrees = 1
    /\ Cardinality({h \in Handles : hk[h] = "dead"}) >= 3

\* C4: upgrade() returns None only when no strong owner is left; an
\* upgrade() that started with no strong owner left never gets past its
\* test for zero; and while a strong owner exists (so while an Arc that
\* upgrade() returned is alive) the payload is present and allocated.
UpgradeOutcome ==
    /\ \A t \in ArcThreads : (apc[t] = "up_loop" /\ an[t] = 0) => NoStrongOwner
    /\ \A t \in ArcThreads :
          (apc[t] \in {"up_loop", "up_clone"} /\ upDead[t]) =>
              (apc[t] = "up_loop" /\ an[t] = 0 /\ data_ref_count = 0)
    /\ ~NoStrongOwner => (data = "Some" /\ ~freed /\ data_ref_count > 0)

\* C4 witness: an upgrade() that started after the last of two Arcs was
\* dropped is about to return None, while a Weak is alive.
UpgradeOutcomeWitness ==
    \E t \in ArcThreads :
        /\ apc[t] = "up_loop" /\ an[t] = 0 /\ upDead[t]
        /\ LiveWeaks # {}
        /\ Cardinality({h \in Handles : hk[h] = "dead"}) = 2

\* C5: while the &mut T that get_mut() returned is in use, the Arc it was
\* called on is the only handle of the allocation, no other thread is inside
\* an operation, and the payload is present.
GetMutExclusive ==
    \A t \in ArcThreads :
        apc[t] = "mut" =>
            /\ {h \in Handles : hk[h] \in {"arc", "weak", "dropping"}} = {ah[t]}
            /\ \A u \in ArcThreads : u # t => apc[u] = "idle"
            /\ data = "Some"
            /\ ~freed
            /\ alloc_ref_count = 1 /\ data_ref_count = 1

\* C5 witness: get_mut() returned the &mut T on an Arc that once shared the
\* allocation with two handles, since dropped.
GetMutWitness ==
    \E t \in ArcThreads :
        /\ apc[t] = "mut"
        /\ Cardinality({h \in Handles : hk[h] = "dead"}) >= 2

\* ------------------------------------------------------------- lock claims 2

\* Thread t called lock() again while it holds a live Guard, and the flag is set.
SelfLocked(t) == lpc[t] = "spin" /\ guards[t] > 0 /\ locked

\* A step in which the flag is released by someone: the public unlock() is
\* called, or a Guard is dropped.
FlagReleased ==
    \/ unlocks' # unlocks
    \/ \E u \in LockThreads : guards'[u] < guards[u]

\* C11: a thread that called lock() again while holding a live Guard stays
\* inside that lock() for as long as no other thread releases the flag, and
\* so does every other thread that is inside lock().
NotReentrant ==
    [][\A t \in LockThreads :
          (SelfLocked(t) /\ ~FlagReleased) =>
              /\ SelfLocked(t)'
              /\ \A u \in LockThreads : lpc[u] = "spin" => lpc'[u] = "spin"]_vars

\* C11 witness: a thread spins in its second lock() holding the Guard of its
\* first, another thread spins too, and unlock() was never called.
NotReentrantWitness ==
    \E t, u \in LockThreads :
        /\ t # u
        /\ SelfLocked(t) /\ lcalls[t] = 2
        /\ lpc[u] = "spin"
        /\ unlocks = 0

\* C12: lock() has one outcome, a Guard with the flag set; when no thread
\* calls lock() while holding a Guard and every holder drops its Guard, every
\* call of lock() returns under fair scheduling.
LockReturns ==
    /\ \A t \in LockThreads : (lpc[t] = "spin") ~> (lpc[t] = "idle")
    /\ [][\A t \in LockThreads :
             (lpc[t] = "spin" /\ lpc'[t] # "spin") =>
                 (lpc'[t] = "idle" /\ guards'[t] = guards[t] + 1 /\ locked')]_vars

\* C12 witness: a thread holds the Guard of its second lock() while another
\* thread is spinning, with unlock() never called.
LockReturnsWitness ==
    \E t, u \in LockThreads :
        /\ t # u
        /\ lcalls[t] = 2 /\ guards[t] = 1 /\ lpc[t] = "idle"
        /\ lpc[u] = "spin"
        /\ unlocks = 0

\* ------------------------------------------------------------ Arc claims 2

\* A step that adds one to counter c.
Incremented(c, cNext) == cNext # c /\ cNext = Inc(c)

\* The operations that add to a counter with fetch_add (Arc::clone,
\* Weak::clone, Arc::downgrade, the Weak::clone inside upgrade) end the
\* process when the value they found is above half of the maximum.
FetchAddGuard ==
    /\ (Incremented(alloc_ref_count, alloc_ref_count') /\ alloc_ref_count > UsizeMax \div 2)
           => aborted'
    /\ (Incremented(data_ref_count, data_ref_count') /\ data_ref_count > UsizeMax \div 2)
           => aborted'

\* Thread t leaves the loop of upgrade(), having read a count above half of
\* the maximum.
UpgradeOverHalf(t) ==
    At(t, "up_loop") /\ an[t] > UsizeMax \div 2 /\ apc'[t] # "up_loop"

\* C13, as stated: every operation that finds a counter above half of the
\* maximum, upgrade() included, ends the whole process.
OverflowAbortsProcess ==
    [][/\ FetchAddGuard
       /\ \A t \in ArcThreads : UpgradeOverHalf(t) => aborted']_vars

\* C13, amended: the fetch_add operations end the process; upgrade() panics
\* in the calling thread alone and leaves both counters as they are; no
\* counter gets further than two above half of the maximum, so none wraps.
OverflowStops ==
    [][/\ FetchAddGuard
       /\ \A t \in ArcThreads :
              UpgradeOverHalf(t) =>
                  /\ apc'[t] = "panicked"
                  /\ ~aborted'
                  /\ UNCHANGED <<data_ref_count, alloc_ref_count>>
       /\ data_ref_count' <= UsizeMax \div 2 + 2
       /\ alloc_ref_count' <= UsizeMax \div 2 + 2]_vars

\* C13 witness: the process was ended by a fetch_add that found a counter
\* above half of the maximum, after an upgrade() had panicked in its thread.
OverflowStopsWitness ==
    /\ aborted
    /\ \E t \in ArcThreads : apc[t] = "panicked"
    /\ alloc_ref_count = UsizeMax \div 2 + 2

\* The upgrades that have incremented data_ref_count (the compare-and-swap
\* of line 71 succeeded) and not yet alloc_ref_count (self.clone(), line 79).
HalfUpgraded == {t \in ArcThreads : apc[t] = "up_clone"}

\* C14, as stated: alloc_ref_count >= data_ref_count in every state, the
\* states between the atomic steps of concurrent operations included.
CountersOrdered == alloc_ref_count >= data_ref_count

\* C14, amended: data_ref_count exceeds alloc_ref_count by no more than the
\* number of upgrades between their two increments; when there is none,
\* alloc_ref_count >= data_ref_count.
CountersOrderedButUpgrades ==
    alloc_ref_count + Cardinality(HalfUpgraded) >= data_ref_count

\* C14 witness: two upgrades through one shared Weak are between their
\* increments, and data_ref_count is above alloc_ref_count.
CountersOrderedWitness ==
    /\ data_ref_count > alloc_ref_count
    /\ \E t, u \in HalfUpgraded : t # u /\ ah[t] = ah[u]

\* C15, as stated: in every state the payload slot is non-empty iff
\* data_ref_count > 0, and the allocation exists iff alloc_ref_count > 0.
PresenceByCount ==
    /\ (data = "Some") <=> (data_ref_count > 0)
    /\ (~freed) <=> (alloc_ref_count > 0)

\* C15, amended: the payload slot is non-empty iff data_ref_count > 0 or the
\* Arc drop that took it to 0 has not yet emptied the slot; the allocation
\* exists iff alloc_ref_count > 0 or the Weak drop that took it to 0 has not
\* yet freed it.
PresenceByCountOrPending ==
    /\ (data = "Some") <=>
           (data_ref_count > 0 \/ \E t \in ArcThreads : apc[t] = "drop_data")
    /\ (~freed) <=>
           (alloc_ref_count > 0 \/ \E t \in ArcThreads : apc[t] = "free")

\* C15 witness: the last Arc is being dropped, data_ref_count is 0 and the
\* payload is still in its slot, with a Weak alive.
PresenceWitness ==
    /\ \E t \in ArcThreads : apc[t] = "drop_data"
    /\ data_ref_count = 0
    /\ data = "Some"
    /\ LiveWeaks # {}

\* ---------------------------------------------------------- channel claims 2

\* C16, as stated: while the channel exists, the slot holds a live value iff
\* the state is WRITING, READY or READING.
SlotLiveByState ==
    ~chanDropped => (msgLive <=> state \in {WRITING, READY, READING})

\* C16, amended: the slot holds a live value iff the state is READY, or it is
\* WRITING and the sender has written the slot, or it is READING and the
\* receiver has not yet read the slot out.
SlotLiveByProgress ==
    ~chanDropped =>
        /\ msgLive <=>
               \/ state = READY
               \/ state = WRITING /\ \E t \in ChanThreads : cpc[t] = "send_store"
               \/ state = READING /\ \E t \in ChanThreads : cpc[t] = "recv_read"
        /\ (\E t \in ChanThreads : cpc[t] = "send_write") =>
               (state = WRITING /\ ~msgLive)
        /\ (\E t \in ChanThreads : cpc[t] = "recv_store") =>
               (state = READING /\ ~msgLive)

\* C16 witness: a second message is about to be written, the state is
\* WRITING and the slot holds nothing, the first message having been read out.
SlotLiveWitness ==
    /\ state = WRITING
    /\ ~msgLive
    /\ \E t \in ChanThreads : cpc[t] = "send_write" /\ carg[t] = 2
    /\ delivered[1] = 1

\* The transitions of the state tag around the exchange cycle.
Cycle ==
    {<<EMPTY, WRITING>>, <<WRITING, READY>>, <<READY, READING>>, <<READING, EMPTY>>}

\* C17: the channel starts EMPTY; the state changes only along EMPTY ->
\* WRITING -> READY -> READING -> EMPTY whatever send(), receive() and
\* is_ready() are interleaved; is_ready() reports whether the state is READY
\* and changes nothing; when a receive() completes the state is EMPTY; a
\* send() called in state EMPTY succeeds; at most one value is in flight.
ExchangeCycle ==
    /\ [](sends = 0 => state = EMPTY)
    /\ [](Cardinality(sentOk) - SumOver(delivered, SlotBits) \in {0, 1})
    /\ [][/\ state' # state => <<state, state'>> \in Cycle
          /\ readySeen' # readySeen =>
                 (readySeen' = (state = READY) /\ UNCHANGED <<chanSlot, cpc, chanLog>>)
          /\ \A t \in ChanThreads :
                 /\ (cpc[t] = "recv_store" /\ cpc'[t] = "idle") => state' = EMPTY
                 /\ (cpc[t] = "idle" /\ sends' # sends /\ cpc'[t] # "idle" /\ state = EMPTY)
                        => (cpc'[t] = "send_write" /\ state' = WRITING)]_vars

\* C17 witness: is_ready() has returned true, the first message was
\* received, and a second send() has won the state, now WRITING.
ExchangeCycleWitness ==
    /\ readySeen
    /\ delivered[1] = 1
    /\ state = WRITING
    /\ \E t \in ChanThreads : cpc[t] = "send_write" /\ carg[t] = 2

\* The threads at one of the positions ps.
ThreadsAt(ps) == {t \in ArcThreads : apc[t] \in ps}

\* C18: when no operation is in progress data_ref_count is the number of
\* live Arcs and alloc_ref_count the number of live Arcs and Weaks. In every
\* state each counter is that number corrected by the operations under way:
\* an upgrade() that has counted its Arc in data_ref_count only, an
\* Arc::clone that has counted its Arc in alloc_ref_count only, an Arc drop
\* that has left data_ref_count and not yet alloc_ref_count.
CountsAreHandles ==
    /\ ArcQuiet =>
           /\ data_ref_count = Cardinality(LiveArcs)
           /\ alloc_ref_count = Cardinality(LiveArcs) + Cardinality(LiveWeaks)
    /\ data_ref_count = Cardinality(LiveArcs) + Cardinality(HalfUpgraded)
    /\ alloc_ref_count =
           Cardinality(LiveArcs) + Cardinality(LiveWeaks)
               + Cardinality(ThreadsAt({"clone_data", "drop_data", "drop_weak"}))

\* C18 witness: no operation is in progress, two Arcs and a Weak are alive,
\* one of the Arcs made by upgrade(), and a handle has been dropped.
CountsAreHandlesWitness ==
    /\ ArcQuiet
    /\ data_ref_count = 2
    /\ alloc_ref_count = 3
    /\ \E h \in Handles : hk[h] = "dead"
    /\ hk[1] = "dead"

\* C19: downgrade() and Weak::clone add one to alloc_ref_count, a Weak drop
\* takes one from it, and neither touches data_ref_count or the payload; an
\* upgrade() that returns None changes neither counter.
WeakOpsFrame ==
    [][/\ (\E h \in Handles : hk[h] = "new" /\ hk'[h] = "weak") =>
              /\ alloc_ref_count' = alloc_ref_count + 1
              /\ UNCHANGED <<data_ref_count, data, freed>>
       /\ (\E h \in Handles : hk[h] = "weak" /\ hk'[h] # "weak") =>
              /\ alloc_ref_count' = alloc_ref_count - 1
              /\ UNCHANGED <<data_ref_count, data, freed>>
       /\ (\E t \in ArcThreads : apc[t] = "up_loop" /\ apc'[t] = "idle") =>
              UNCHANGED <<data_ref_count, alloc_ref_count, data, freed>>]_vars

\* C19 witness: two Weaks were made, the Arc and one of the Weaks have been
\* dropped, and an upgrade() through the Weak that is left has read the
\* count 0 and is about to return None.
WeakOpsFrameWitness ==
    /\ \E t \in ArcThreads : apc[t] = "up_loop" /\ an[t] = 0 /\ hk[ah[t]] = "weak"
    /\ LiveArcs = {}
    /\ data = "None"
    /\ alloc_ref_count = 1
    /\ Cardinality(LiveWeaks) = 1
    /\ Cardinality({h \in Handles : hk[h] = "dead"}) = 2

\* C20: once data_ref_count is 0 it stays 0; and every upgrade() returns,
\* the operations of the other threads being finitely many.
NoResurrection ==
    /\ [][data_ref_count = 0 => data_ref_count' = 0]_vars
    /\ \A t \in ArcThreads :
           (apc[t] = "up_loop") ~> (apc[t] \in {"idle", "panicked"})

\* C20 witness: an upgrade() read a positive count, the last Arc was then
\* dropped, and the compare-and-swap of the upgrade() is about to fail.
NoResurrectionWitness ==
    \E t \in ArcThreads :
        /\ apc[t] = "up_loop"
        /\ an[t] > 0
        /\ data_ref_count = 0

\* C21: with one receiver, once is_ready() has returned true the state is
\* READY, with a sent message in the slot, until the receiver calls
\* receive(); that receive() does not panic and returns the message sent;
\* is_ready() changes neither the state nor the slot.
IsReadyGuards ==
    /\ []((readySeen /\ recvs = 0) =>
             (state = READY /\ (~chanDropped => (msgLive /\ message = lastSent))))
    /\ [](cpc[Receiver] # "recv_panic")
    /\ [](cpc[Receiver] = "recv_store" =>
             (crecv[Receiver] = lastSent /\ crecv[Receiver] \in sentOk))
    /\ [][readySeen' # readySeen => UNCHANGED <<chanSlot, cpc, chanLog>>]_vars

\* C21 witness: is_ready() returned true, the receive() that followed has
\* read the message sent, and another thread's send() has lost the race.
IsReadyGuardsWitness ==
    /\ readySeen
    /\ cpc[Receiver] = "recv_store"
    /\ crecv[Receiver] = lastSent
    /\ \E t \in ChanThreads : cpc[t] = "send_panic"

\* -------------------------------------------- borrowing channel claims

\* C22: under every interleaving of Sender::send and Receiver::receive,
\* receive() returns the message sent, read after send() wrote it; once
\* receive() has returned the ready flag is false; and no drop of the Channel
\* destroys a message that was already received.
ConsumedOnce ==
    /\ rpc = "done" => (~bEarly /\ bGot = bMessage /\ bGot \in BorrowMsgs)
    /\ rpc = "done" => ~bReady
    /\ ~bTwice
====
